---- MODULE Spec2Model ----
(***************************************************************************)
(* FINNBAR: the availability query (finnbar/api.py) and the part of the    *)
(* terminal app that issues it and shows its outcome (finnbar/app.py).     *)
(*                                                                         *)
(* Text the code transforms or orders (ids, names, country codes,          *)
(* timestamps) is a sequence of one-character strings; text the code only  *)
(* copies or compares for equality (bu codes, message types, a store's     *)
(* country) is a TLA+ string.  A JSON object is a function on its keys, so *)
(* that a missing key is a key outside DOMAIN.                             *)
(***************************************************************************)
EXTENDS Integers, Sequences, FiniteSets, TLC

VARIABLES
    \* one direct call of api.check_availability
    country_code, product_ids, bu_code,   \* its arguments
    resp,                                 \* what the provider answers
    runtime311,                           \* the runtime is Python 3.11 or later
    pc,                                   \* "ready" | "returned" | "raised"
    requests,                             \* the GET requests the last call has sent
    results,                              \* the returned list (<<>> until returned)
    raised,                               \* the exception that left the call
    \* the app
    product_input, country_select, store_select,   \* the sidebar widgets
    main,                                 \* content of #main-area
    workers,                              \* _fetch_stock threads still fetching
    callbacks,                            \* call_from_thread callbacks not yet run
    issued,                               \* how many checks were issued
    latest                                \* what the latest check shows, once it is fetched

apiVars == <<country_code, product_ids, bu_code, resp, runtime311, pc, requests, results, raised>>
appVars == <<product_input, country_select, store_select, main, workers, callbacks, issued, latest>>
vars == <<country_code, product_ids, bu_code, resp, runtime311, pc, requests, results, raised,
          product_input, country_select, store_select, main, workers, callbacks, issued, latest>>

(***************************************************************************)
(* Text                                                                    *)
(***************************************************************************)

\* The characters in code point order.
Alphabet ==
    <<" ", "+", ",", "-", ".", "0", "1", "2", "3", "4", "5", "6", "7", "8", "9", ":",
      "A", "B", "C", "D", "E", "F", "G", "H", "I", "J", "K", "L", "M",
      "N", "O", "P", "Q", "R", "S", "T", "U", "V", "W", "X", "Y", "Z",
      "a", "b", "c", "d", "e", "f", "g", "h", "i", "j", "k", "l", "m",
      "n", "o", "p", "q", "r", "s", "t", "u", "v", "w", "x", "y", "z">>

CodePoints ==
    [c \in {Alphabet[i] : i \in 1..Len(Alphabet)} |->
        CHOOSE i \in 1..Len(Alphabet) : Alphabet[i] = c]

\* the rank of a character in code point order
Code(c) == CodePoints[c]

IsUpper(c) == Code(c) >= Code("A") /\ Code(c) <= Code("Z")

IsLower(c) == Code(c) >= Code("a") /\ Code(c) <= Code("z")

IsDigit(c) == Code(c) >= Code("0") /\ Code(c) <= Code("9")

DigitVal(c) == Code(c) - Code("0")

\* str.lower()
Lower(s) == [i \in 1..Len(s) |->
                IF IsUpper(s[i]) THEN Alphabet[Code(s[i]) - Code("A") + Code("a")] ELSE s[i]]

\* str.upper()
Upper(s) == [i \in 1..Len(s) |->
                IF IsLower(s[i]) THEN Alphabet[Code(s[i]) - Code("a") + Code("A")] ELSE s[i]]

RECURSIVE LStrip(_)
LStrip(s) == IF s # <<>> /\ Head(s) = " " THEN LStrip(Tail(s)) ELSE s

RECURSIVE RStrip(_)
RStrip(s) == IF s # <<>> /\ s[Len(s)] = " " THEN RStrip(SubSeq(s, 1, Len(s) - 1)) ELSE s

\* str.strip()
Strip(s) == RStrip(LStrip(s))

\* str.replace(c, "")
RECURSIVE Remove(_, _)
Remove(s, c) ==
    IF s = <<>> THEN <<>>
    ELSE IF Head(s) = c THEN Remove(Tail(s), c)
    ELSE <<Head(s)>> \o Remove(Tail(s), c)

\* c in s
Contains(s, c) == \E i \in 1..Len(s) : s[i] = c

\* index of the first c in s (s contains c)
IndexOf(s, c) == CHOOSE i \in 1..Len(s) : s[i] = c /\ \A j \in 1..(i - 1) : s[j] # c

\* str.split(c): the pieces between the occurrences of c
RECURSIVE Split(_, _)
Split(s, c) ==
    IF ~Contains(s, c) THEN <<s>>
    ELSE <<SubSeq(s, 1, IndexOf(s, c) - 1)>> \o Split(SubSeq(s, IndexOf(s, c) + 1, Len(s)), c)

\* sep.join(parts)
RECURSIVE Join(_, _)
Join(parts, sep) ==
    IF parts = <<>> THEN <<>>
    ELSE IF Len(parts) = 1 THEN parts[1]
    ELSE parts[1] \o sep \o Join(Tail(parts), sep)

\* s < t for str: lexicographic by code point
RECURSIVE StrLess(_, _)
StrLess(s, t) ==
    IF t = <<>> THEN FALSE
    ELSE IF s = <<>> THEN TRUE
    ELSE IF Head(s) # Head(t) THEN Code(Head(s)) < Code(Head(t))
    ELSE StrLess(Tail(s), Tail(t))

\* dict.get(k, default)
Get(d, k, default) == IF k \in DOMAIN d THEN d[k] ELSE default

\* the empty dict, and the default of a chained .get(k, {})
EmptyDict == <<>>

\* Optional[str]: None, or a value
None == <<>>
Some(x) == <<x>>

(***************************************************************************)
(* The store directory (stores.json, loaded once)                          *)
(***************************************************************************)

de == <<"d", "e">>
us == <<"u", "s">>
Berlin == <<"B", "e", "r", "l", "i", "n">>
Aachen == <<"A", "a", "c", "h", "e", "n">>
Austin == <<"A", "u", "s", "t", "i", "n">>

\* Two stores of one country share a display name; one entry has no "country".
STORES ==
    << [buCode |-> "S1", name |-> Berlin, countryCode |-> de, country |-> "Germany"],
       [buCode |-> "S2", name |-> Berlin, countryCode |-> de, country |-> "Germany"],
       [buCode |-> "S3", name |-> Aachen, countryCode |-> de],
       [buCode |-> "S4", name |-> Austin, countryCode |-> us, country |-> "USA"] >>

Germany == <<"G", "e", "r", "m", "a", "n", "y">>
USA == <<"U", "S", "A">>

COUNTRIES == [c \in {de, us} |-> IF c = de THEN Germany ELSE USA]

Store(s) ==
    [bu_code |-> s.buCode, name |-> s.name, country_code |-> s.countryCode,
     country |-> Get(s, "country", "")]

get_stores(code) ==
    LET cc == Strip(Lower(code))
    IN  SelectSeq([i \in 1..Len(STORES) |-> Store(STORES[i])], LAMBDA s : s.country_code = cc)

get_all_stores == [i \in 1..Len(STORES) |-> Store(STORES[i])]

get_country_name(code) == Get(COUNTRIES, code, Upper(code))

(***************************************************************************)
(* The timestamp of an entry (api.py, lines 137-151)                       *)
(***************************************************************************)

AllDigits(s) == \A i \in 1..Len(s) : IsDigit(s[i])

\* the two-digit number at s[i], s[i+1]
Num2(s, i) == DigitVal(s[i]) * 10 + DigitVal(s[i + 1])

TwoDigitsBelow(s, i, limit) ==
    Len(s) >= i + 1 /\ IsDigit(s[i]) /\ IsDigit(s[i + 1]) /\ Num2(s, i) < limit

IsLeap(y) == (y % 4 = 0 /\ y % 100 # 0) \/ y % 400 = 0

DaysIn(y, m) ==
    IF m = 2 THEN (IF IsLeap(y) THEN 29 ELSE 28)
    ELSE IF m \in {4, 6, 9, 11} THEN 30 ELSE 31

\* YYYY-MM-DD naming a day of the calendar
ValidDate(d) ==
    /\ Len(d) = 10
    /\ d[5] = "-" /\ d[8] = "-"
    /\ AllDigits(SubSeq(d, 1, 4)) /\ AllDigits(SubSeq(d, 6, 7)) /\ AllDigits(SubSeq(d, 9, 10))
    /\ LET y == Num2(d, 1) * 100 + Num2(d, 3)
           m == Num2(d, 6)
           dd == Num2(d, 9)
       IN  y >= 1 /\ m >= 1 /\ m <= 12 /\ dd >= 1 /\ dd <= DaysIn(y, m)

\* the UTC offset ending a time: none, +HH:MM or -HH:MM, and "Z" where the
\* runtime reads it (Python 3.11 and later)
ValidTz(t, py311) ==
    \/ t = <<>>
    \/ py311 /\ t = <<"Z">>
    \/ /\ Len(t) = 6
       /\ t[1] \in {"+", "-"}
       /\ TwoDigitsBelow(t, 2, 24) /\ t[4] = ":" /\ TwoDigitsBelow(t, 5, 60)

\* the digits after the "." of the seconds
ValidFraction(f, py311) ==
    AllDigits(f) /\ (IF py311 THEN Len(f) >= 1 ELSE Len(f) \in {3, 6})

AfterSecond(r, py311) ==
    \/ ValidTz(r, py311)
    \/ /\ Len(r) >= 2 /\ r[1] = "."
       /\ \E k \in 2..Len(r) :
             ValidFraction(SubSeq(r, 2, k), py311) /\ ValidTz(SubSeq(r, k + 1, Len(r)), py311)

AfterMinute(r, py311) ==
    \/ ValidTz(r, py311)
    \/ /\ Len(r) >= 3 /\ r[1] = ":" /\ TwoDigitsBelow(r, 2, 60)
       /\ AfterSecond(SubSeq(r, 4, Len(r)), py311)

AfterHour(r, py311) ==
    \/ ValidTz(r, py311)
    \/ /\ Len(r) >= 3 /\ r[1] = ":" /\ TwoDigitsBelow(r, 2, 60)
       /\ AfterMinute(SubSeq(r, 4, Len(r)), py311)

\* HH[:MM[:SS[.f]]][offset]
ValidTime(t, py311) == TwoDigitsBelow(t, 1, 24) /\ AfterHour(SubSeq(t, 3, Len(t)), py311)

\* datetime.fromisoformat(s) returns (TRUE) or raises ValueError (FALSE), for the
\* extended format YYYY-MM-DD[*HH[:MM[:SS[.f]]][offset]]
IsoParses(s, py311) ==
    /\ Len(s) >= 10
    /\ ValidDate(SubSeq(s, 1, 10))
    /\ Len(s) = 10 \/ (Len(s) >= 12 /\ ValidTime(SubSeq(s, 12, Len(s)), py311))

\* datetime.fromisoformat(s).strftime("%Y-%m-%d %H:%M"), for s that parses
IsoFormat(s) ==
    LET hh == IF Len(s) = 10 THEN <<"0", "0">> ELSE SubSeq(s, 12, 13)
        mm == IF Len(s) >= 16 /\ s[14] = ":" THEN SubSeq(s, 15, 16) ELSE <<"0", "0">>
    IN  SubSeq(s, 1, 10) \o <<" ">> \o hh \o <<":">> \o mm

\* lines 138-151, for a raw value that is a string
FormatUpdatedAt(raw, py311) ==
    LET u == IF raw # <<>> /\ IsoParses(raw, py311) THEN IsoFormat(raw) ELSE raw
    IN  IF Contains(u, "T")
        THEN LET date_part == SubSeq(u, 1, IndexOf(u, "T") - 1)
                 time_part == SubSeq(u, IndexOf(u, "T") + 1, Len(u))
                 time_short == IF Len(time_part) >= 5 THEN SubSeq(time_part, 1, 5)
                               ELSE time_part
             IN  date_part \o <<" ">> \o time_short
        ELSE u

(***************************************************************************)
(* JSON values whose type the code tests                                   *)
(***************************************************************************)

JNull == [t |-> "null"]
JNum(n) == [t |-> "num", v |-> n]
JArr(a) == [t |-> "array", v |-> a]
JObj(o) == [t |-> "object", v |-> o]

\* x or 0, then int()
IntOrZero(x) == IF x.t = "num" /\ x.v # 0 THEN x.v ELSE 0

(***************************************************************************)
(* One entry of availabilities (api.py, lines 122-151)                     *)
(***************************************************************************)

\* stock, probability and updated_at of an entry, or the exception it raises
EntryFields(item, py311) ==
    LET deflt == [raised |-> "none", stock |-> 0, probability |-> "", updated_at |-> <<>>]
        avail == Get(Get(Get(item, "buyingOption", EmptyDict), "cashCarry", EmptyDict),
                     "availability", EmptyDict)
    IN  IF ~Get(item, "availableForCashCarry", FALSE) THEN deflt
        ELSE IF DOMAIN avail = {} THEN deflt
        ELSE IF "updateDateTime" \notin DOMAIN avail
             \* updated_at is None, and `"T" in None` raises
             THEN [raised |-> "TypeError", stock |-> 0, probability |-> "", updated_at |-> <<>>]
        ELSE [raised |-> "none",
              stock |-> IntOrZero(Get(avail, "quantity", JNum(0))),
              probability |-> Get(Get(Get(avail, "probability", EmptyDict),
                                      "thisDay", EmptyDict), "messageType", ""),
              updated_at |-> FormatUpdatedAt(avail.updateDateTime, py311)]

(***************************************************************************)
(* check_availability (api.py, lines 70-170)                               *)
(***************************************************************************)

\* line 91
ItemNos(ids) == Join([i \in 1..Len(ids) |-> Strip(ids[i])], <<",">>)

\* a raise_for_status that lets the 4xx statuses through
RaisesForServerError(status) == status >= 500 /\ status < 600

\* line 102, resp.raise_for_status(): HTTPError for a 4xx or 5xx status
RaisesForStatus(status) == status >= 400 /\ status < 600

\* line 109: a dict by bu_code; of two stores with one bu_code the later one stays
StoreLookup(stores) ==
    [b \in {stores[i].bu_code : i \in 1..Len(stores)} |->
        stores[CHOOSE i \in 1..Len(stores) :
                  stores[i].bu_code = b /\ \A j \in (i + 1)..Len(stores) : stores[j].bu_code # b]]

\* a loop without the test of line 114
AnyType(item) == TRUE

\* line 114
IsStoreType(item) ==
    Get(Get(item, "classUnitKey", EmptyDict), "classUnitType", "") = "STO"

\* line 116
StoreCode(item) == Get(Get(item, "classUnitKey", EmptyDict), "classUnitCode", "")

\* lines 114-118: the entry yields a record
Yields(item, lookup) == IsStoreType(item) /\ StoreCode(item) \in DOMAIN lookup

\* lines 119-164: the StockInfo of an entry that yields one and does not raise
StockInfo(item, lookup, py311) ==
    LET store == lookup[StoreCode(item)]
        f == EntryFields(item, py311)
    IN  [product_id |-> Get(Get(item, "itemKey", EmptyDict), "itemNo", <<>>),
         bu_code |-> StoreCode(item),
         store_name |-> store.name,
         country_code |-> store.country_code,
         country |-> store.country,
         stock |-> f.stock,
         probability |-> f.probability,
         updated_at |-> f.updated_at]

\* lines 111-164: the loop, when no entry raises
RECURSIVE Collect(_, _, _)
Collect(items, lookup, py311) ==
    IF items = <<>> THEN <<>>
    ELSE (IF Yields(Head(items), lookup)
          THEN <<StockInfo(Head(items), lookup, py311)>> ELSE <<>>)
         \o Collect(Tail(items), lookup, py311)

\* the loop leaves by an exception: some entry that yields a record raises
LoopRaises(items, lookup, py311) ==
    \E i \in 1..Len(items) :
        Yields(items[i], lookup) /\ EntryFields(items[i], py311).raised # "none"

\* `if bu_code is not None:` in place of line 167
FilterNotNone(filter) == filter # None

\* line 167, `if bu_code:`
FilterGiven(filter) == filter # None /\ filter[1] # ""

\* lines 167-168
FilterByStore(recs, filter) ==
    IF FilterGiven(filter) THEN SelectSeq(recs, LAMBDA r : r.bu_code = filter[1]) ELSE recs

\* line 169, the key (store_name, product_id): tuples compare item by item
KeyLess(a, b) ==
    \/ StrLess(a.store_name, b.store_name)
    \/ a.store_name = b.store_name /\ StrLess(a.product_id, b.product_id)

\* an unstable sort: x goes before the records of its own key
InsertBeforeTies(sorted, x) ==
    LET k == Cardinality({i \in 1..Len(sorted) : KeyLess(sorted[i], x)})
    IN  SubSeq(sorted, 1, k) \o <<x>> \o SubSeq(sorted, k + 1, Len(sorted))

\* x goes behind every record whose key is not greater than its own
Insert(sorted, x) ==
    LET k == Cardinality({i \in 1..Len(sorted) : ~KeyLess(x, sorted[i])})
    IN  SubSeq(sorted, 1, k) \o <<x>> \o SubSeq(sorted, k + 1, Len(sorted))

\* line 169, list.sort(key=...): stable
RECURSIVE SortByKey(_)
SortByKey(recs) ==
    IF recs = <<>> THEN <<>>
    ELSE Insert(SortByKey(SubSeq(recs, 1, Len(recs) - 1)), recs[Len(recs)])

\* The outbound request of lines 90-101
Request(code, ids) == [cc |-> Strip(Lower(code)), itemNos |-> ItemNos(ids)]

Failure(exc, status, reqs) ==
    [raised |-> exc, status |-> status, results |-> <<>>, requests |-> reqs]

\* The whole call: what it raises or returns, and the requests it issued
check_availability(code, ids, filter, response, py311) ==
    LET reqs == <<Request(code, ids)>>
        data == response.body.value
        items == data.v.availabilities.v
        lookup == StoreLookup(get_stores(Strip(Lower(code))))
    IN  IF RaisesForStatus(response.status) THEN Failure("HTTPError", response.status, reqs)
        ELSE IF ~response.body.json THEN Failure("JSONDecodeError", 0, reqs)
        ELSE IF data.t # "object" THEN Failure("AttributeError", 0, reqs)
        ELSE IF Get(data.v, "availabilities", JNull).t # "array"
             THEN Failure("ValueError", 0, reqs)
        ELSE IF LoopRaises(items, lookup, py311) THEN Failure("TypeError", 0, reqs)
        ELSE [raised |-> "none", status |-> 0,
              results |-> SortByKey(FilterByStore(Collect(items, lookup, py311), filter)),
              requests |-> reqs]

(***************************************************************************)
(* Inputs of a direct call                                                 *)
(***************************************************************************)

\* the longest availabilities list the provider answers with
MaxEntries == 2

TsFull == <<"2", "0", "2", "4", "-", "0", "1", "-", "1", "5", "T",
            "0", "4", ":", "1", "4", ":", "0", "5", ".", "3", "0", "2", "Z">>
TsDate == <<"2", "0", "2", "4", "-", "0", "1", "-", "1", "5">>
TsMinute == <<"2", "0", "2", "4", "-", "0", "1", "-", "1", "5", "T", "0", "4", ":", "1", "4">>
TsWord == <<"s", "o", "o", "n">>
TsTbd == <<"T", "B", "D">>

Dotted == <<"3", "0", "6", ".", "0", "4", "3", ".", "6", "7">>
Bare == <<"3", "0", "6", "0", "4", "3", "6", "7">>
Other == <<"1", "0", "6", "0", "6", "6", "4", "0">>
Padded == <<" ", "3", "0", "6", ".", "0", "4", "3", ".", "6", "7", " ">>
Prefixed == <<"s", "5">>

MessageType(m) == [thisDay |-> [messageType |-> m]]

Entry(type, code, itemNo, cashCarry, avail) ==
    [classUnitKey |-> [classUnitType |-> type, classUnitCode |-> code],
     itemKey |-> [itemNo |-> itemNo],
     availableForCashCarry |-> cashCarry,
     buyingOption |-> [cashCarry |-> [availability |-> avail]]]

Availability(q, m, ts) == [quantity |-> q, probability |-> MessageType(m), updateDateTime |-> ts]

\* Entries of every shape the loop tells apart
Entries ==
    { \* two stores of one name with the same product
      Entry("STO", "S1", Bare, TRUE, Availability(JNum(5), "HIGH_IN_STOCK", TsFull)),
      Entry("STO", "S2", Bare, TRUE, Availability(JNum(2), "LOW_IN_STOCK", TsDate)),
      \* a positive quantity reported as out of stock
      Entry("STO", "S3", Other, TRUE, Availability(JNum(5), "OUT_OF_STOCK", TsFull)),
      \* a store of another country, a unit that is no store
      Entry("STO", "S4", Bare, TRUE, Availability(JNum(5), "HIGH_IN_STOCK", TsFull)),
      Entry("RU", "S1", Bare, TRUE, Availability(JNum(5), "HIGH_IN_STOCK", TsFull)),
      \* not for cash and carry, and without any optional part
      [classUnitKey |-> [classUnitType |-> "STO", classUnitCode |-> "S1"],
       itemKey |-> [itemNo |-> Other], availableForCashCarry |-> FALSE],
      \* an availability block lacking some of its fields, or all
      Entry("STO", "S1", Bare, TRUE, [quantity |-> JNum(5)]),
      Entry("STO", "S1", Other, TRUE, [updateDateTime |-> TsTbd]),
      Entry("STO", "S1", Bare, TRUE,
            [quantity |-> JNull, probability |-> EmptyDict, updateDateTime |-> TsMinute]),
      Entry("STO", "S1", Bare, TRUE, EmptyDict),
      \* an id with a letter prefix, a timestamp that is no date
      Entry("STO", "S3", Prefixed, TRUE, Availability(JNum(0), "OUT_OF_STOCK", TsWord)) }

EntryLists == UNION {[1..n -> Entries] : n \in 0..MaxEntries}

\* response bodies: not JSON; JSON that is no object; an object without a list
\* under "availabilities"; an object with one
ListBody(l) == [json |-> TRUE, value |-> JObj([availabilities |-> JArr(l)])]

OtherBodies ==
    {[json |-> FALSE, value |-> JNull]}
    \cup {[json |-> TRUE, value |-> v] :
             v \in {JNull, JArr(<<>>), JNum(1),
                    JObj(EmptyDict),
                    JObj([availabilities |-> JNull]),
                    JObj([availabilities |-> JObj(EmptyDict)]),
                    JObj([errors |-> JArr(<<>>)])}}

Bodies == OtherBodies \cup {ListBody(l) : l \in EntryLists}

\* what an error status comes with
ErrorBodies ==
    {[json |-> FALSE, value |-> JNull],
     [json |-> TRUE, value |-> JObj([errors |-> JArr(<<>>)])],
     [json |-> TRUE, value |-> JObj([availabilities |-> JArr(<<
         Entry("STO", "S1", Bare, TRUE, Availability(JNum(5), "HIGH_IN_STOCK", TsFull))>>)])]}

OtherResponses == {[status |-> st, body |-> b] : st \in {204, 304, 404, 500}, b \in ErrorBodies}

Responses == {[status |-> 200, body |-> b] : b \in Bodies} \cup OtherResponses

CountryArgs == {<<" ", "D", "E", " ">>, us}

ProductArgs == {<<Dotted>>, <<Bare>>, <<Padded, Other>>}

FilterArgs == {None, Some(""), Some("S1"), Some("S9")}

(***************************************************************************)
(* The app (app.py)                                                        *)
(***************************************************************************)

\* the most checks the user issues
MaxChecks == 2

Typed == <<" ", "3", "0", "6", ".", "0", "4", "3", ".", "6", "7", " ", ",", " ",
           "1", "0", "6", "0", "6", "6", "4", "0", ",">>

\* what the user types into #product-input
InputTexts == {<<>>, Dotted, Bare, Typed}

\* lines 29-35
_PROBABILITY_DISPLAY ==
    [k \in {"HIGH_IN_STOCK", "LOW_IN_STOCK", "OUT_OF_STOCK"} |->
        IF k = "HIGH_IN_STOCK" THEN <<"High in stock", "bold green">>
        ELSE IF k = "LOW_IN_STOCK" THEN <<"Low in stock", "bold yellow">>
        ELSE <<"Out of stock", "bold red">>]

_PROBABILITY_FALLBACK == <<"Unknown", "dim">>

_ZERO_STOCK_KEYS == {"OUT_OF_STOCK"}

\* str(n)
RECURSIVE IntToStr(_)
IntToStr(n) ==
    IF n < 0 THEN <<"-">> \o IntToStr(0 - n)
    ELSE IF n < 10 THEN <<Alphabet[Code("0") + n]>>
    ELSE IntToStr(n \div 10) \o <<Alphabet[Code("0") + (n % 10)]>>

\* lines 143-149: the ids of the tokens between the commas
RECURSIVE Normalized(_)
Normalized(tokens) ==
    IF tokens = <<>> THEN <<>>
    ELSE LET normalized == Remove(Strip(Head(tokens)), ".")
         IN  (IF normalized # <<>> THEN <<normalized>> ELSE <<>>) \o Normalized(Tail(tokens))

\* lines 139-149 without the replace of line 146
RECURSIVE Trimmed(_)
Trimmed(tokens) ==
    IF tokens = <<>> THEN <<>>
    ELSE (IF Strip(Head(tokens)) # <<>> THEN <<Strip(Head(tokens))>> ELSE <<>>)
         \o Trimmed(Tail(tokens))

IdsWithDots(text) ==
    LET raw == Strip(text)
    IN  IF raw = <<>> THEN <<>> ELSE Trimmed(Split(raw, ","))

\* lines 139-149
_product_ids(text) ==
    LET raw == Strip(text)
    IN  IF raw = <<>> THEN <<>> ELSE Normalized(Split(raw, ","))

\* the values #store-select offers for a country (lines 151-158)
StoreOptions(country) ==
    {Some(get_stores(country)[i].bu_code) : i \in 1..Len(get_stores(country))}

\* line 220
StoreName(country, bu) ==
    LET stores == get_stores(country)
        hits == {i \in 1..Len(stores) : stores[i].bu_code = bu}
    IN  IF hits = {} THEN None
        ELSE Some(stores[CHOOSE i \in hits : \A j \in hits : i <= j].name)

NoExc == [type |-> "none", status |-> 0]

NoMessage == [text |-> "", ids |-> <<>>, store |-> None, country |-> <<>>, exc |-> NoExc]

IntroMessage == [text |-> "intro", ids |-> <<>>, store |-> None, country |-> <<>>, exc |-> NoExc]

\* the content of #main-area: the widget it holds, with its message or its rows
MainOf(kind, message, rows) == [kind |-> kind, message |-> message, rows |-> rows]

\* line 280 without the test for _ZERO_STOCK_KEYS
RawStockCell(r) == IntToStr(r.stock)

\* line 280
StockCell(r) == IF r.probability \notin _ZERO_STOCK_KEYS THEN IntToStr(r.stock) ELSE <<"0">>

\* lines 273-283
Row(r) ==
    [product_id |-> r.product_id,
     country |-> <<Upper(r.country_code), r.country>>,
     store |-> r.store_name,
     stock |-> StockCell(r),
     availability |-> Get(_PROBABILITY_DISPLAY, r.probability, _PROBABILITY_FALLBACK),
     updated |-> r.updated_at]

\* lines 243-283: #main-area after _render_stock
_render_stock(recs, country, ids, store_name) ==
    IF recs = <<>>
    THEN MainOf("empty-state",
                [text |-> "no-data", ids |-> Join(ids, <<",", " ">>),
                 store |-> IF store_name # None /\ store_name[1] # <<>> THEN store_name ELSE None,
                 country |-> get_country_name(country), exc |-> NoExc],
                <<>>)
    ELSE MainOf("results-table", NoMessage, [i \in 1..Len(recs) |-> Row(recs[i])])

\* lines 180-191: #main-area after _show_error
_show_error(exc) ==
    MainOf("error-state",
           [text |-> "error", ids |-> <<>>, store |-> None, country |-> <<>>, exc |-> exc], <<>>)

\* lines 232-241: the callback _fetch_stock hands to call_from_thread
Callback(w, out) ==
    IF out.raised = "none"
    THEN [fn |-> "_render_stock", results |-> out.results, country_code |-> w.country_code,
          product_ids |-> w.product_ids, store_name |-> w.store_name, exc |-> NoExc]
    ELSE [fn |-> "_show_error", results |-> <<>>, country_code |-> w.country_code,
          product_ids |-> w.product_ids, store_name |-> w.store_name,
          exc |-> [type |-> out.raised, status |-> out.status]]

\* #main-area once the callback has run
Shown(cb) ==
    IF cb.fn = "_render_stock"
    THEN _render_stock(cb.results, cb.country_code, cb.product_ids, cb.store_name)
    ELSE _show_error(cb.exc)

AppIdle ==
    /\ main = MainOf("empty-state", IntroMessage, <<>>)
    /\ workers = {}
    /\ callbacks = <<>>
    /\ issued = 0
    /\ latest = None

NoCall ==
    /\ country_code = <<>>
    /\ product_ids = <<>>
    /\ bu_code = None
    /\ pc = "none"
    /\ results = <<>>
    /\ raised = NoExc

\* on_input: the user edits #product-input
TypeProductInput(text) ==
    /\ text # product_input
    /\ product_input' = text
    /\ UNCHANGED <<country_select, store_select, main, workers, callbacks, issued, latest>>
    /\ UNCHANGED apiVars

\* lines 113-116: a new country empties the store selection
SelectCountry(c) ==
    /\ c # country_select
    /\ country_select' = c
    /\ store_select' = None
    /\ UNCHANGED <<product_input, main, workers, callbacks, issued, latest>>
    /\ UNCHANGED apiVars

SelectStore(st) ==
    /\ st \in StoreOptions(country_select) \cup {None}
    /\ st # store_select
    /\ store_select' = st
    /\ UNCHANGED <<product_input, country_select, main, workers, callbacks, issued, latest>>
    /\ UNCHANGED apiVars

\* lines 204-222, with a check left to issue; an empty id list returns early
_do_check_stock(limit) ==
    /\ issued < limit
    /\ _product_ids(product_input) # <<>>
    /\ issued' = issued + 1
    /\ workers' = workers \cup
          {[id |-> issued + 1,
            country_code |-> country_select,
            product_ids |-> _product_ids(product_input),
            bu_code |-> store_select,
            store_name |-> IF FilterGiven(store_select)
                           THEN StoreName(country_select, store_select[1]) ELSE None]}
    /\ main' = MainOf("loading", NoMessage, <<>>)
    /\ latest' = None
    /\ UNCHANGED <<product_input, country_select, store_select, callbacks>>
    /\ UNCHANGED apiVars

\* lines 193-200
_do_clear ==
    /\ product_input' = <<>>
    /\ main' = MainOf("empty-state", IntroMessage, <<>>)
    /\ UNCHANGED <<country_select, store_select, workers, callbacks, issued, latest>>
    /\ UNCHANGED apiVars

\* lines 224-241: a worker thread gets the provider's answer r and hands its
\* callback to the UI thread
_fetch_stock(w, r) ==
    /\ w \in workers
    /\ \E out \in {check_availability(w.country_code, w.product_ids, w.bu_code, r, runtime311)} :
           /\ callbacks' = Append(callbacks, Callback(w, out))
           /\ requests' = out.requests
           /\ latest' = IF w.id = issued THEN Some(Shown(Callback(w, out))) ELSE latest
    /\ workers' = workers \ {w}
    /\ UNCHANGED <<product_input, country_select, store_select, main, issued>>
    /\ UNCHANGED <<country_code, product_ids, bu_code, resp, runtime311, pc, results, raised>>

\* the UI thread runs the oldest callback
RunCallback ==
    /\ callbacks # <<>>
    /\ main' = Shown(Head(callbacks))
    /\ callbacks' = Tail(callbacks)
    /\ UNCHANGED <<product_input, country_select, store_select, workers, issued, latest>>
    /\ UNCHANGED apiVars

(***************************************************************************)
(* One stock check against every answer of the provider: a direct call of  *)
(* check_availability with any arguments, or a check the app issues from   *)
(* the sidebar as the user set it                                          *)
(***************************************************************************)

\* answers to a check of the app: a list of at most one entry, or a failure
AppResponses ==
    {[status |-> 200, body |-> b] :
        b \in OtherBodies \cup {ListBody(<<>>)} \cup {ListBody(<<e>>) : e \in Entries}}
    \cup OtherResponses

InitDirect ==
    /\ country_code \in CountryArgs
    /\ product_ids \in ProductArgs
    /\ bu_code \in FilterArgs
    /\ resp \in Responses
    /\ pc = "ready"
    /\ results = <<>>
    /\ raised = NoExc
    /\ product_input = <<>>
    /\ country_select = de
    /\ store_select = None
    /\ AppIdle

InitApp ==
    /\ NoCall
    /\ resp \in AppResponses
    /\ product_input \in InputTexts
    /\ country_select \in DOMAIN COUNTRIES
    /\ store_select \in StoreOptions(country_select) \cup {None}
    /\ AppIdle

Init ==
    /\ runtime311 \in BOOLEAN
    /\ requests = <<>>
    /\ InitDirect \/ InitApp

CheckAvailability ==
    /\ pc = "ready"
    /\ \E out \in {check_availability(country_code, product_ids, bu_code, resp, runtime311)} :
           /\ pc' = IF out.raised = "none" THEN "returned" ELSE "raised"
           /\ requests' = out.requests
           /\ results' = out.results
           /\ raised' = [type |-> out.raised, status |-> out.status]
    /\ UNCHANGED <<country_code, product_ids, bu_code, resp, runtime311>>
    /\ UNCHANGED appVars

DoCheckStock == pc = "none" /\ _do_check_stock(1)

FetchStock == \E w \in workers : _fetch_stock(w, resp)

Next ==
    \/ CheckAvailability
    \/ DoCheckStock
    \/ FetchStock
    \/ RunCallback

Spec == Init /\ [][Next]_vars

(***************************************************************************)
(* The app with several checks in flight                                   *)
(***************************************************************************)

\* the provider's answers while checks race: records, no records, a failure
RaceResponses ==
    {[status |-> 200, body |-> [json |-> TRUE, value |-> JObj([availabilities |-> JArr(<<
         Entry("STO", "S3", Other, TRUE, Availability(JNum(5), "OUT_OF_STOCK", TsFull)),
         Entry("STO", "S1", Bare, TRUE, Availability(JNum(5), "HIGH_IN_STOCK", TsFull))>>)])]],
     [status |-> 500, body |-> [json |-> FALSE, value |-> JNull]]}

AppInit ==
    /\ NoCall
    /\ resp = [status |-> 0, body |-> [json |-> FALSE, value |-> JNull]]
    /\ runtime311 \in BOOLEAN
    /\ requests = <<>>
    /\ product_input = <<>>
    /\ country_select = de
    /\ store_select = None
    /\ AppIdle

\* what the user types while checks race
RaceTexts == {Dotted, Typed}

EditProductInput == \E text \in RaceTexts : TypeProductInput(text)

ChangeCountry == \E c \in DOMAIN COUNTRIES : SelectCountry(c)

ChangeStore == \E st \in StoreOptions(country_select) \cup {None} : SelectStore(st)

PressCheckStock == _do_check_stock(MaxChecks)

PressClear == _do_clear

FetchAnyStock == \E w \in workers, r \in RaceResponses : _fetch_stock(w, r)

AppNext ==
    \/ EditProductInput
    \/ ChangeCountry
    \/ ChangeStore
    \/ PressCheckStock
    \/ PressClear
    \/ FetchAnyStock
    \/ RunCallback

AppSpec == AppInit /\ [][AppNext]_vars

(***************************************************************************)
(* Properties                                                              *)
(***************************************************************************)

\* the direct call has ended
Ended == pc \in {"returned", "raised"}

\* the answer carries a list under "availabilities"
HasList ==
    /\ resp.body.json
    /\ resp.body.value.t = "object"
    /\ "availabilities" \in DOMAIN resp.body.value.v
    /\ resp.body.value.v.availabilities.t = "array"

Items == resp.body.value.v.availabilities.v

\* the entry is of store type and names a store the directory lists for the
\* call's country, lower-cased and trimmed
Produces(e) ==
    /\ "classUnitKey" \in DOMAIN e
    /\ e.classUnitKey.classUnitType = "STO"
    /\ \E i \in 1..Len(STORES) :
          /\ STORES[i].buCode = e.classUnitKey.classUnitCode
          /\ STORES[i].countryCode = Strip(Lower(country_code))

Producing == {i \in 1..Len(Items) : Produces(Items[i])}

\* the block the entry reports its cash-and-carry stock in, {} if it has none
Block(e) ==
    IF "availableForCashCarry" \in DOMAIN e /\ e.availableForCashCarry /\ "buyingOption" \in DOMAIN e
    THEN e.buyingOption.cashCarry.availability ELSE EmptyDict

\* some returned record is the one of entry e, with f true of it
RecordOf(e, f(_)) ==
    \E k \in 1..Len(results) :
        /\ results[k].bu_code = e.classUnitKey.classUnitCode
        /\ results[k].product_id = e.itemKey.itemNo
        /\ f(results[k])

\* C1 as stated: every StockInfo check_availability returns, to a direct caller
\* or to the app's worker, has stock 0 when its probability is OUT_OF_STOCK.
C1_ReturnedStockZero ==
    /\ \A i \in 1..Len(results) :
          results[i].probability = "OUT_OF_STOCK" => results[i].stock = 0
    /\ \A c \in 1..Len(callbacks) : \A i \in 1..Len(callbacks[c].results) :
          callbacks[c].results[i].probability = "OUT_OF_STOCK"
              => callbacks[c].results[i].stock = 0

\* C1 amended: every row of the results table the app shows for a record whose
\* probability is OUT_OF_STOCK has "0" in its stock cell.
C1_ShownStockZero ==
    main.kind = "results-table" =>
        \A i \in 1..Len(main.rows) :
            main.rows[i].availability[1] = "Out of stock" => main.rows[i].stock = <<"0">>

\* C1 witness: a row shown as out of stock with "0" although the payload
\* reported a quantity of 5 for it.
C1_Witness ==
    /\ main.kind = "results-table"
    /\ main.rows[1].availability[1] = "Out of stock"
    /\ main.rows[1].stock = <<"0">>
    /\ Block(Items[1]).quantity = JNum(5)

\* C2 as stated: with any non-null filter, the empty string included, every
\* returned record has that bu_code.
C2_NonNullFilter ==
    (pc = "returned" /\ bu_code # None) =>
        \A i \in 1..Len(results) : results[i].bu_code = bu_code[1]

\* C2 amended: with a non-empty filter f the returned records are exactly those
\* of the entries of store f (none for a store no entry names); with a null or
\* an empty filter every produced record is returned.
C2_NonEmptyFilter ==
    pc = "returned" =>
        IF bu_code # None /\ bu_code[1] # ""
        THEN /\ \A i \in 1..Len(results) : results[i].bu_code = bu_code[1]
             /\ Len(results) =
                   Cardinality({i \in Producing : Items[i].classUnitKey.classUnitCode = bu_code[1]})
        ELSE Len(results) = Cardinality(Producing)

\* C2 witness: a filter that keeps a record and drops another.
C2_Witness ==
    /\ pc = "returned"
    /\ bu_code = Some("S1")
    /\ Len(results) = 1
    /\ Cardinality(Producing) = 2

\* the value C3 promises for a raw timestamp
C3_Promised(raw) ==
    IF Contains(raw, "T")
    THEN LET time == SubSeq(raw, IndexOf(raw, "T") + 1, Len(raw))
         IN  SubSeq(raw, 1, IndexOf(raw, "T") - 1) \o <<" ">>
                 \o SubSeq(time, 1, IF Len(time) < 5 THEN Len(time) ELSE 5)
    ELSE raw

\* C3: the record of a cash-and-carry entry with a raw timestamp has in
\* updated_at the date, a space and the first 5 characters of the time when
\* the raw value has the separator, and the raw value unchanged when it has not.
C3_Timestamp ==
    (pc = "returned" /\ bu_code = None) =>
        \A i \in Producing :
            "updateDateTime" \in DOMAIN Block(Items[i]) =>
                RecordOf(Items[i],
                         LAMBDA r : r.updated_at = C3_Promised(Block(Items[i]).updateDateTime))

\* C4: once the answer has its availabilities list the call returns, and the
\* record of an entry whose availability block lacks a field has the default
\* for it.
C4_OptionalFields ==
    (Ended /\ ~RaisesForStatus(resp.status) /\ HasList) =>
        /\ pc = "returned"
        /\ bu_code = None =>
              \A i \in Producing :
                  RecordOf(Items[i],
                           LAMBDA r :
                               /\ "quantity" \notin DOMAIN Block(Items[i]) => r.stock = 0
                               /\ "probability" \notin DOMAIN Block(Items[i]) => r.probability = ""
                               /\ "updateDateTime" \notin DOMAIN Block(Items[i])
                                     => r.updated_at = <<>>)

\* what C5 says check_availability sends for a list of ids
C5_Promised(ids) == Join([i \in 1..Len(ids) |-> Remove(Strip(ids[i]), ".")], <<",">>)

\* C5 as stated: check_availability trims each id and removes its dots, so the
\* dotted and the bare id put the same token in itemNos.
C5_CallRemovesDots ==
    Ended => requests[1].itemNos = C5_Promised(product_ids)

\* C5 amended: check_availability trims each id and joins them with ","; the
\* dots are removed by the app's _product_ids before the call, so a check of
\* the app for the dotted id and one for the bare id put the same token in
\* itemNos, while a direct call sends the dots it is given.
C5_AppRemovesDots ==
    /\ Ended =>
          /\ product_ids = <<Dotted>> => requests[1].itemNos = Dotted
          /\ product_ids = <<Bare>> => requests[1].itemNos = Bare
          /\ product_ids = <<Padded, Other>> => requests[1].itemNos = Dotted \o <<",">> \o Other
    /\ (issued = 1 /\ requests # <<>>) =>
          /\ product_input \in {Dotted, Bare} => requests[1].itemNos = Bare
          /\ product_input = Typed => requests[1].itemNos = Bare \o <<",">> \o Other

\* C5 witness: the app has sent the request of a check for the dotted id.
C5_Witness ==
    /\ issued = 1
    /\ product_input = Dotted
    /\ requests # <<>>
    /\ requests[1].itemNos = Bare

\* C6: with no filter the returned records are, one for one, the entries of
\* store type whose store the directory lists for the normalized country, and
\* each carries the fields of that store.
C6_OneToOne ==
    (pc = "returned" /\ bu_code = None) =>
        /\ Len(results) = Cardinality(Producing)
        /\ \A i \in Producing :
              Cardinality({k \in 1..Len(results) :
                              /\ results[k].bu_code = Items[i].classUnitKey.classUnitCode
                              /\ results[k].product_id = Items[i].itemKey.itemNo})
              = Cardinality({j \in Producing :
                              /\ Items[j].classUnitKey.classUnitCode
                                     = Items[i].classUnitKey.classUnitCode
                              /\ Items[j].itemKey.itemNo = Items[i].itemKey.itemNo})
        /\ \A k \in 1..Len(results) : \E i \in 1..Len(STORES) :
              /\ STORES[i].buCode = results[k].bu_code
              /\ STORES[i].countryCode = Strip(Lower(country_code))
              /\ results[k].store_name = STORES[i].name
              /\ results[k].country_code = STORES[i].countryCode
              /\ results[k].country = (IF "country" \in DOMAIN STORES[i] THEN STORES[i].country ELSE "")

\* C6 witness: a record is returned while an entry of another type and an
\* entry of a store of another country yield none.
C6_Witness ==
    /\ pc = "returned"
    /\ bu_code = None
    /\ Len(results) = 1
    /\ \E i \in 1..Len(Items) : Items[i].classUnitKey.classUnitType = "RU"

\* the order of the compound key (store_name, product_id)
C7_Before(a, b) ==
    \/ StrLess(a.store_name, b.store_name)
    \/ a.store_name = b.store_name /\ StrLess(a.product_id, b.product_id)

C7_Tie(a, b) == a.store_name = b.store_name /\ a.product_id = b.product_id

\* C7: the returned sequence is non-decreasing by (store_name, product_id), with
\* or without a filter, and records that tie keep the order of their entries.
C7_SortedStable ==
    (pc = "returned" /\ HasList) =>
        /\ \A i, j \in 1..Len(results) : i < j => ~C7_Before(results[j], results[i])
        /\ LET lookup == StoreLookup(get_stores(country_code))
               inOrder == FilterByStore(Collect(Items, lookup, runtime311), bu_code)
           IN  \A k \in 1..Len(results) :
                   SelectSeq(results, LAMBDA r : C7_Tie(r, results[k]))
                   = SelectSeq(inOrder, LAMBDA r : C7_Tie(r, results[k]))

\* C7 witness: the sort has moved the record of the second entry before the
\* record of the first.
C7_Witness ==
    /\ pc = "returned"
    /\ Len(Items) = 2
    /\ Len(results) = 2
    /\ C7_Before(results[1], results[2])
    /\ results[1].bu_code = Items[2].classUnitKey.classUnitCode
    /\ results[1].bu_code # results[2].bu_code

\* C8 as stated: every status outside 200..299 fails the call with an HTTP
\* error of that status, no records, and one request sent.
C8_Non2xx ==
    (Ended /\ (resp.status < 200 \/ resp.status > 299)) =>
        /\ raised = [type |-> "HTTPError", status |-> resp.status]
        /\ results = <<>>
        /\ Len(requests) = 1

\* C8 amended: every 4xx or 5xx status fails the call with an HTTP error of
\* that status, no records, and one request sent.
C8_ErrorStatus ==
    (Ended /\ resp.status >= 400 /\ resp.status <= 599) =>
        /\ raised = [type |-> "HTTPError", status |-> resp.status]
        /\ results = <<>>
        /\ Len(requests) = 1

\* C8 witness: a 500 whose body holds a well-formed list fails the call.
C8_Witness ==
    /\ pc = "raised"
    /\ resp.status = 500
    /\ HasList
    /\ raised.type = "HTTPError"

\* C9: a successful answer whose JSON body has no list under "availabilities"
\* fails the call with ValueError, and no record is returned.
C9_Malformed ==
    (Ended /\ resp.status >= 200 /\ resp.status <= 299 /\ resp.body.json /\ ~HasList) =>
        /\ raised.type = "ValueError"
        /\ results = <<>>

\* C10: at the step that completes the last outstanding check, #main-area
\* shows the outcome of the check issued last.
C10_LatestShown ==
    [][(callbacks # <<>> /\ callbacks' = <<>> /\ workers' = {}) => main' = latest'[1]]_vars

====
